---- MODULE Spec2Model ----
(***************************************************************************)
(* Balloon tracker: the snapshot fetcher and table builder                 *)
(* (gbt.py: fetch_balloon_data), the alert engine (gbt.py:                 *)
(* generate_alerts) and the linear predictor (predictor.py:                *)
(* train_and_save_models, predict_trajectory).                             *)
(*                                                                         *)
(* Numbers.  A value of a float column is a one-element tuple <<v>>, and   *)
(* pandas' missing value (NaN, or None in a column) is the empty tuple.    *)
(* The values themselves are integers (the code's arithmetic on them is    *)
(* subtraction and comparison, exact on the small integers used here).     *)
(*                                                                         *)
(* A table (DataFrame) is the sequence of its rows in index order.  The    *)
(* frame pd.DataFrame([]) built from no records has no columns; it is the  *)
(* only table of the program with no rows, so "no columns" is "no rows".   *)
(* The timestamp column (gbt.py:41) is never missing and is read by no     *)
(* operation modelled here; it is left out of the rows.                    *)
(***************************************************************************)
EXTENDS Integers, Sequences, FiniteSets, TLC

VARIABLES
    pc,        \* position of the dashboard process: "fetching", "serving", "crashed"
    hour,      \* gbt.py:16   the loop variable of fetch_balloon_data
    r,         \* gbt.py:19   the outcome of the request of the hour just handled
    records,   \* gbt.py:15   the records collected so far
    df,        \* gbt.py:46   the module-level table
    out,       \* the outcome of the latest call of a callback or of the trainer
    latFile,   \* predictor.py:6   lat_model_linear.pkl on disk
    lonFile,   \* predictor.py:7   lon_model_linear.pkl on disk
    pp,        \* position of predict_trajectory: "idle", "loop"
    balloon_id, \* predictor.py:39  the balloon of the latest prediction
    horizon,   \* predictor.py:39  the horizon of the latest prediction
    lat_model, \* predictor.py:43  the latitude model the prediction loaded
    lon_model, \* predictor.py:44  the longitude model the prediction loaded
    step,      \* predictor.py:56  the number of passes of the loop made so far
    last,      \* predictor.py:53  the row the next feature vector is built from
    x,         \* predictor.py:57  the feature vector of the latest pass
    preds,     \* predictor.py:54  the predictions so far
    X,         \* predictor.py:14  the feature vectors of the latest training
    y_lat,     \* predictor.py:14  their latitude labels
    y_lon      \* predictor.py:14  their longitude labels

fetchVars == <<pc, hour, r, records, df>>
fileVars == <<latFile, lonFile>>
predVars == <<pp, balloon_id, horizon, lat_model, lon_model, step, last, x, preds>>
trainVars == <<X, y_lat, y_lon>>

vars == <<fetchVars, out, fileVars, predVars, trainVars>>

---------------------------------------------------------------------------
(* Bounds *)

\* Hours the fetch loop runs over (range(24) in the code: the hours from
\* NumHours on behave as hours whose request failed).
NumHours == 4

---------------------------------------------------------------------------
(* Values *)

NaN == <<>>
Num(v) == <<v>>
IsNA(v) == v = NaN

\* a - b on floats: missing when either side is missing.
Sub(a, b) == IF IsNA(a) \/ IsNA(b) THEN NaN ELSE Num(a[1] - b[1])

\* a != b on floats: NaN is unequal to everything, itself included.
FloatNe(a, b) == IsNA(a) \/ IsNA(b) \/ a[1] # b[1]

---------------------------------------------------------------------------
(* JSON payloads.  A point of a snapshot is a JSON list (items: its        *)
(* elements, JSON null being NaN) or some other JSON value.  The decoded   *)
(* body `data` is an array (iterating yields its elements), an object      *)
(* (iterating yields its keys, which are strings) or a scalar (a number,   *)
(* null, true: not iterable).                                              *)

ListPoint(items) == [list |-> TRUE, items |-> items]
Triple(lat, lon, alt) == ListPoint(<<Num(lat), Num(lon), Num(alt)>>)
NullLatTriple(lon, alt) == ListPoint(<<NaN, Num(lon), Num(alt)>>)
ShortPoint == ListPoint(<<Num(10), Num(20)>>)
NonListPoint == [list |-> FALSE, items |-> <<>>]

\* The snapshots the endpoint serves in this model.
Snapshots ==
    { <<>>,
      <<Triple(10, 20, 0)>>,
      <<Triple(10, 20, 5)>>,
      <<Triple(10, 20, 6)>>,
      <<Triple(11, 20, 5)>>,
      <<ShortPoint, Triple(10, 20, 5)>>,
      <<Triple(10, 20, 0), Triple(10, 21, 6)>>,
      <<NullLatTriple(20, 5)>>,
      <<NonListPoint>> }

\* The outcome of one request: net is "error" when requests.get raises a
\* RequestException; body is "garbage" (r.json() raises), "array", "object"
\* or "scalar"; items are the values iterating over the decoded body yields.
Response(net, code, body, items) ==
    [net |-> net, code |-> code, body |-> body, items |-> items]

NetworkError == Response("error", 0, "none", <<>>)
Http500 == Response("ok", 500, "none", <<>>)
Undecodable == Response("ok", 200, "garbage", <<>>)
ObjectBody == Response("ok", 200, "object", <<NonListPoint>>)
ScalarBody == Response("ok", 200, "scalar", <<>>)
ArrayBody(points) == Response("ok", 200, "array", points)

Outcomes ==
    {NetworkError, Http500, Undecodable, ObjectBody, ScalarBody}
        \cup {ArrayBody(s) : s \in Snapshots}

NoResponse == Response("none", 0, "none", <<>>)

---------------------------------------------------------------------------
(* fetch_balloon_data *)

\* gbt.py:24   the test that keeps a point.
KeepPoint(point) == point.list /\ Len(point.items) = 3

\* gbt.py:27-33   the record of point number i (0-based) of the hour's data.
PointRecord(h, i, point) ==
    [time_hour_ago |-> h, lat |-> point.items[1], lon |-> point.items[2],
     alt |-> point.items[3], id |-> i]

\* gbt.py:23-33   the records the inner loop appends for one hour's data.
RECURSIVE DataRecords(_, _, _)
DataRecords(h, items, i) ==
    IF i > Len(items) THEN <<>>
    ELSE (IF KeepPoint(items[i]) THEN <<PointRecord(h, i - 1, items[i])>> ELSE <<>>)
             \o DataRecords(h, items, i + 1)

\* gbt.py:17-35   what escapes the try block: enumerate(data) on a value that is
\* not iterable raises TypeError, which the except clause does not name.
HourRaises(o) == o.net = "ok" /\ o.code = 200 /\ o.body = "scalar"

\* gbt.py:17-35   the records one pass of the loop body appends.
HourRecords(h, o) ==
    IF o.net # "ok" THEN <<>>              \* requests.RequestException: continue
    ELSE IF o.code # 200 THEN <<>>         \* status_code != 200: continue
    ELSE IF o.body = "garbage" THEN <<>>   \* json.JSONDecodeError: continue
    ELSE DataRecords(h, o.items, 1)

\* Lexicographic order of two rows on the columns cols (integer columns).
RECURSIVE RowLess(_, _, _)
RowLess(a, b, cols) ==
    IF cols = <<>> THEN FALSE
    ELSE \/ a[Head(cols)] < b[Head(cols)]
         \/ a[Head(cols)] = b[Head(cols)] /\ RowLess(a, b, Tail(cols))

RECURSIVE InsertRow(_, _, _)
InsertRow(row, sorted, cols) ==
    IF sorted = <<>> THEN <<row>>
    ELSE IF RowLess(row, Head(sorted), cols) THEN <<row>> \o sorted
    ELSE <<Head(sorted)>> \o InsertRow(row, Tail(sorted), cols)

\* DataFrame.sort_values(cols), ascending; rows with equal keys keep their order.
RECURSIVE SortValues(_, _)
SortValues(rows, cols) ==
    IF rows = <<>> THEN <<>>
    ELSE InsertRow(rows[Len(rows)], SortValues(SubSeq(rows, 1, Len(rows) - 1), cols), cols)

\* groupby("id")["alt"].diff(-1) at position i of a table: the row's alt minus
\* the alt of the next row of its group, missing on the group's last row.
GroupDiff(rows, i) ==
    LET later == {j \in (i + 1)..Len(rows) : rows[j].id = rows[i].id}
    IN  IF later = {} THEN NaN
        ELSE LET j == CHOOSE k \in later : \A m \in later : k <= m
             IN  Sub(rows[i].alt, rows[j].alt)

WithSpeed(row, v) ==
    [time_hour_ago |-> row.time_hour_ago, lat |-> row.lat, lon |-> row.lon,
     alt |-> row.alt, id |-> row.id, vertical_speed |-> v]

\* gbt.py:37-44   the table built from the records.
BuildTable(recs) ==
    IF recs = <<>> THEN <<>>
    ELSE LET sorted == SortValues(recs, <<"id", "time_hour_ago">>)
         IN  [i \in 1..Len(sorted) |-> WithSpeed(sorted[i], GroupDiff(sorted, i))]

NoCall == [op |-> "none", status |-> "none", value |-> <<>>]

\* gbt.py:16-35   one pass of the loop over the hours.
FetchHour ==
    /\ pc = "fetching"
    /\ hour < NumHours
    /\ \E o \in Outcomes :
          /\ r' = o
          /\ IF HourRaises(o)
             THEN /\ pc' = "crashed"
                  /\ UNCHANGED <<hour, records>>
             ELSE /\ records' = records \o HourRecords(hour, o)
                  /\ hour' = hour + 1
                  /\ pc' = pc
    /\ UNCHANGED <<df, out, fileVars, predVars, trainVars>>

\* gbt.py:37-46   the loop is over: build the table and bind it to df.
FetchReturn ==
    /\ pc = "fetching"
    /\ hour = NumHours
    /\ df' = BuildTable(records)
    /\ pc' = "serving"
    /\ UNCHANGED <<hour, r, records, out, fileVars, predVars, trainVars>>

---------------------------------------------------------------------------
(* generate_alerts *)

\* gbt.py:208
selected_hour == 0

\* gbt.py:227   the rapid-descent threshold
DescentLimit == -5

\* gbt.py:230   the low-altitude threshold
LowAltitude == 1

\* gbt.py:233   the number of older rows the stationary rule asks for
StationaryMin == 3

Message(kind, id) == [kind |-> kind, id |-> id]

\* gbt.py:240
Nominal == Message("nominal", -1)

\* Boolean-mask selection df[mask]: the rows that pass, in order.
RECURSIVE SelectHourLe(_, _)
SelectHourLe(rows, h) ==
    IF rows = <<>> THEN <<>>
    ELSE (IF Head(rows).time_hour_ago <= h THEN <<Head(rows)>> ELSE <<>>)
             \o SelectHourLe(Tail(rows), h)

RECURSIVE SelectId(_, _)
SelectId(rows, id) ==
    IF rows = <<>> THEN <<>>
    ELSE (IF Head(rows).id = id THEN <<Head(rows)>> ELSE <<>>)
             \o SelectId(Tail(rows), id)

IdsOf(rows) == {rows[i].id : i \in 1..Len(rows)}

\* The keys of groupby("id"), ascending.
RECURSIVE SortedIds(_)
SortedIds(ids) ==
    IF ids = {} THEN <<>>
    ELSE LET m == CHOOSE k \in ids : \A j \in ids : k <= j
         IN  <<m>> \o SortedIds(ids \ {m})

\* The rule with the limit itself counted as a rapid descent.
RapidDescentAtLimit(vspeed) == ~IsNA(vspeed) /\ vspeed[1] <= DescentLimit

\* gbt.py:227
RapidDescent(vspeed) == ~IsNA(vspeed) /\ vspeed[1] < DescentLimit

\* gbt.py:230
FlyingLow(alt) == ~IsNA(alt) /\ alt[1] < LowAltitude

\* gbt.py:233-236
Stationary(current, previous) ==
    /\ Len(previous) >= StationaryMin
    /\ Cardinality({i \in 1..Len(previous) : FloatNe(previous[i].lat, current.lat)}) = 0
    /\ Cardinality({i \in 1..Len(previous) : FloatNe(previous[i].lon, current.lon)}) = 0

\* gbt.py:212   the rows generate_alerts groups by id.
AlertRows(table) == SelectHourLe(table, selected_hour)

\* gbt.py:215-237   the messages of one group of `grouped`.
BalloonAlerts(group) ==
    LET balloon == SortValues(group, <<"time_hour_ago">>)
    IN  IF balloon = <<>> \/ balloon[1].time_hour_ago # selected_hour THEN <<>>
        ELSE LET current == balloon[1]
                 previous == Tail(balloon)
             IN  (IF RapidDescent(current.vertical_speed)
                      THEN <<Message("descent", current.id)>> ELSE <<>>)
                 \o (IF FlyingLow(current.alt)
                      THEN <<Message("low", current.id)>> ELSE <<>>)
                 \o (IF Stationary(current, previous)
                      THEN <<Message("stationary", current.id)>> ELSE <<>>)

RECURSIVE CollectAlerts(_, _)
CollectAlerts(rows, ids) ==
    IF ids = <<>> THEN <<>>
    ELSE BalloonAlerts(SelectId(rows, Head(ids))) \o CollectAlerts(rows, Tail(ids))

\* gbt.py:210   df["time_hour_ago"] on the frame without columns: KeyError.
AlertsRaise(table) == table = <<>>

\* gbt.py:207-242   the lines generate_alerts returns.
AlertLines(table) ==
    LET grouped == AlertRows(table)
        alerts == CollectAlerts(grouped, SortedIds(IdsOf(grouped)))
    IN  IF alerts = <<>> THEN <<Nominal>> ELSE alerts

Returned(op, value) == [op |-> op, status |-> "returned", value |-> value]
Raised(op, error) == [op |-> op, status |-> "raised", value |-> <<error>>]

\* gbt.py:207-242   the interval timer calls generate_alerts on the module's df.
\* (With the frame without columns the layout, gbt.py:57, reads the same
\* column and raises the same KeyError while the module is loading.)
GenerateAlerts ==
    /\ pc = "serving"
    /\ out' = IF AlertsRaise(df) THEN Raised("generate_alerts", "KeyError")
              ELSE Returned("generate_alerts", AlertLines(df))
    /\ UNCHANGED <<fetchVars, fileVars, predVars, trainVars>>

---------------------------------------------------------------------------
(* predictor.py *)

\* Largest horizon a prediction is asked for (the dashboard asks for 24).
MaxHorizon == 2

Horizons == 0..MaxHorizon

\* The balloon ids a prediction is asked for (a table may hold neither).
QueryIds == {0, 1}

NoFile == <<>>

\* A fitted LinearRegression: prediction = intercept + coef . x
LinearModel(intercept, coef) == [intercept |-> intercept, coef |-> coef]

\* The fitted models of this model: what LinearRegression.fit computes from
\* the examples is not computed here; a fit yields any of these.
Models ==
    { LinearModel(1, <<0, 1, 0, 0, 0>>),
      LinearModel(0, <<1, 0, 1, 0, 1>>) }

\* predictor.py:64-65   model.predict([x])[0]
ModelPredict(model, v) ==
    model.intercept + model.coef[1] * v[1] + model.coef[2] * v[2]
        + model.coef[3] * v[3] + model.coef[4] * v[4] + model.coef[5] * v[5]

\* DataFrame.dropna(): the rows with no missing value in any column.
RowComplete(row) ==
    ~IsNA(row.lat) /\ ~IsNA(row.lon) /\ ~IsNA(row.alt) /\ ~IsNA(row.vertical_speed)

RECURSIVE DropNA(_)
DropNA(rows) ==
    IF rows = <<>> THEN <<>>
    ELSE (IF RowComplete(Head(rows)) THEN <<Head(rows)>> ELSE <<>>) \o DropNA(Tail(rows))

\* predictor.py:47   traj["alt"].diff(-1) at position i.
DiffNext(rows, i) ==
    IF i < Len(rows) THEN Sub(rows[i].alt, rows[i + 1].alt) ELSE NaN

\* predictor.py:46-48   the rows of the balloon, newest first, with the speed
\* recomputed and the incomplete rows dropped.
Trajectory(table, id) ==
    LET traj == SortValues(SelectId(table, id), <<"time_hour_ago">>)
    IN  DropNA([i \in 1..Len(traj) |-> WithSpeed(traj[i], DiffNext(traj, i))])

\* The check failing only when both files are absent.
ModelsMissingBoth(lat, lon) == lat = NoFile /\ lon = NoFile

\* predictor.py:40
ModelsMissing(lat, lon) == lat = NoFile \/ lon = NoFile

\* The feature vector with the time offset left at the row's own.
FeaturesFixedTime(row, k) ==
    <<row.time_hour_ago, row.lat[1], row.lon[1], row.alt[1], row.vertical_speed[1]>>

\* predictor.py:57-63, with k the loop variable.
Features(row, k) ==
    <<row.time_hour_ago - k, row.lat[1], row.lon[1], row.alt[1], row.vertical_speed[1]>>

\* predictor.py:69-71
Advance(row, pred_lat, pred_lon) ==
    [time_hour_ago |-> row.time_hour_ago, lat |-> Num(pred_lat), lon |-> Num(pred_lon),
     alt |-> row.alt, id |-> row.id, vertical_speed |-> row.vertical_speed]

Running(op) == [op |-> op, status |-> "running", value |-> <<>>]
ReturnedNone(op) == [op |-> op, status |-> "returned_none", value |-> <<>>]

NoRow == [time_hour_ago |-> 0, lat |-> NaN, lon |-> NaN, alt |-> NaN, id |-> -1,
          vertical_speed |-> NaN]

\* predictor.py:39-54   predict_trajectory(df, id, h) up to its loop.
PredictCall ==
    /\ pc = "serving"
    /\ pp = "idle"
    /\ \E id \in QueryIds, h \in Horizons :
          /\ balloon_id' = id
          /\ horizon' = h
          /\ step' = 0
          /\ x' = <<>>
          /\ preds' = <<>>
          /\ IF ModelsMissing(latFile, lonFile)
             THEN /\ out' = Raised("predict_trajectory", "FileNotFoundError")
                  /\ UNCHANGED <<pp, lat_model, lon_model, last>>
             ELSE /\ lat_model' = latFile
                  /\ lon_model' = lonFile
                  /\ IF df = <<>>
                     THEN /\ out' = Raised("predict_trajectory", "KeyError")
                          /\ UNCHANGED <<pp, last>>
                     ELSE IF Trajectory(df, id) = <<>>
                     THEN /\ out' = ReturnedNone("predict_trajectory")
                          /\ UNCHANGED <<pp, last>>
                     ELSE /\ out' = Running("predict_trajectory")
                          /\ pp' = "loop"
                          /\ last' = Trajectory(df, id)[1]
    /\ X' = <<>> /\ y_lat' = <<>> /\ y_lon' = <<>>
    /\ UNCHANGED <<fetchVars, fileVars>>

\* predictor.py:56-71   one pass of the loop.
PredictStep ==
    /\ pp = "loop"
    /\ step < horizon
    /\ LET v == Features(last, step)
           pred_lat == ModelPredict(lat_model, v)
           pred_lon == ModelPredict(lon_model, v)
       IN  /\ x' = v
           /\ preds' = Append(preds, <<pred_lat, pred_lon>>)
           /\ last' = Advance(last, pred_lat, pred_lon)
    /\ step' = step + 1
    /\ UNCHANGED <<fetchVars, out, fileVars, pp, balloon_id, horizon, lat_model,
                   lon_model, trainVars>>

\* predictor.py:73
PredictReturn ==
    /\ pp = "loop"
    /\ step = horizon
    /\ out' = Returned("predict_trajectory", preds)
    /\ pp' = "idle"
    /\ UNCHANGED <<fetchVars, fileVars, balloon_id, horizon, lat_model, lon_model,
                   step, last, x, preds, trainVars>>

\* predictor.py:10-12   the table the examples are taken from.
TrainingRows(table) ==
    LET sorted == SortValues(table, <<"id", "time_hour_ago">>)
    IN  DropNA([i \in 1..Len(sorted) |-> WithSpeed(sorted[i], GroupDiff(sorted, i))])

\* predictor.py:17-27   the examples of one group: [x, lat, lon] per pass.
GroupExamples(g) ==
    [i \in 1..(IF Len(g) = 0 THEN 0 ELSE Len(g) - 1) |->
        [x |-> Features(g[i], 0), lat |-> g[i + 1].lat[1], lon |-> g[i + 1].lon[1]]]

RECURSIVE CollectExamples(_, _)
CollectExamples(rows, ids) ==
    IF ids = <<>> THEN <<>>
    ELSE GroupExamples(SelectId(rows, Head(ids))) \o CollectExamples(rows, Tail(ids))

\* predictor.py:14-27
Examples(table) ==
    LET rows == TrainingRows(table)
    IN  CollectExamples(rows, SortedIds(IdsOf(rows)))

\* The locals of predict_trajectory when no call of it has been made.
NoPrediction ==
    /\ pp = "idle"
    /\ balloon_id = 0
    /\ horizon = 0
    /\ lat_model = NoFile
    /\ lon_model = NoFile
    /\ step = 0
    /\ last = NoRow
    /\ x = <<>>
    /\ preds = <<>>

\* The locals of the predictions made before are gone.
ForgetPrediction ==
    /\ pp' = "idle"
    /\ balloon_id' = 0
    /\ horizon' = 0
    /\ lat_model' = NoFile
    /\ lon_model' = NoFile
    /\ step' = 0
    /\ last' = NoRow
    /\ x' = <<>>
    /\ preds' = <<>>

\* predictor.py:9-37   train_and_save_models(df).  sort_values on the frame
\* without columns raises KeyError; fit on no examples raises ValueError;
\* either leaves the files as they were.  Calls run one at a time: a call
\* starts when no other is under way, and the locals of the calls before it
\* are gone.
Train ==
    /\ pc = "serving"
    /\ pp = "idle"
    /\ ForgetPrediction
    /\ IF df = <<>>
       THEN /\ out' = Raised("train_and_save_models", "KeyError")
            /\ UNCHANGED <<fileVars, trainVars>>
       ELSE LET ex == Examples(df)
            IN  /\ X' = [k \in 1..Len(ex) |-> ex[k].x]
                /\ y_lat' = [k \in 1..Len(ex) |-> ex[k].lat]
                /\ y_lon' = [k \in 1..Len(ex) |-> ex[k].lon]
                /\ IF ex = <<>>
                   THEN /\ out' = Raised("train_and_save_models", "ValueError")
                        /\ UNCHANGED fileVars
                   ELSE /\ \E fitted \in Models : latFile' = fitted
                        /\ \E fitted \in Models : lonFile' = fitted
                        /\ out' = Returned("train_and_save_models", <<>>)
    /\ UNCHANGED fetchVars

---------------------------------------------------------------------------
(* The dashboard process: gbt.py from import to the alert callback *)

Init ==
    /\ pc = "fetching"
    /\ hour = 0
    /\ r = NoResponse
    /\ records = <<>>
    /\ df = <<>>
    /\ out = NoCall
    /\ latFile = NoFile
    /\ lonFile = NoFile
    /\ pp = "idle"
    /\ balloon_id = 0
    /\ horizon = 0
    /\ lat_model = NoFile
    /\ lon_model = NoFile
    /\ step = 0
    /\ last = NoRow
    /\ x = <<>>
    /\ preds = <<>>
    /\ X = <<>>
    /\ y_lat = <<>>
    /\ y_lon = <<>>

Next ==
    \/ FetchHour
    \/ FetchReturn
    \/ GenerateAlerts

Spec == Init /\ [][Next]_vars

---------------------------------------------------------------------------
(* The predictor over the tables fetch_balloon_data returns *)

\* What the endpoint serves for one hour in the predictor's runs.
PredictorOutcomes ==
    { NetworkError,
      ArrayBody(<<Triple(10, 20, 0)>>),
      ArrayBody(<<Triple(11, 20, 6), Triple(10, 21, 5)>>),
      ArrayBody(<<NullLatTriple(20, 5)>>) }

\* gbt.py:16-35   the records of a whole run of the loop over the outcomes feed.
RECURSIVE FetchAll(_, _)
FetchAll(feed, h) ==
    IF h >= Len(feed) THEN <<>>
    ELSE HourRecords(h, feed[h + 1]) \o FetchAll(feed, h + 1)

InitPredictor ==
    /\ \E feed \in [1..NumHours -> PredictorOutcomes] :
          /\ records = FetchAll(feed, 0)
          /\ r = feed[NumHours]
          /\ df = BuildTable(FetchAll(feed, 0))
    /\ pc = "serving"
    /\ hour = NumHours
    /\ out = NoCall
    /\ latFile \in {NoFile} \cup Models
    /\ lonFile \in {NoFile} \cup Models
    /\ NoPrediction
    /\ X = <<>>
    /\ y_lat = <<>>
    /\ y_lon = <<>>

NextPredictor ==
    \/ PredictCall
    \/ PredictStep
    \/ PredictReturn
    \/ Train

SpecPredictor == InitPredictor /\ [][NextPredictor]_vars

---------------------------------------------------------------------------
(* Properties of the dashboard process *)

AlertsReturned == out.op = "generate_alerts" /\ out.status = "returned"

Emitted(kind, id) == \E k \in 1..Len(out.value) : out.value[k] = Message(kind, id)

\* The rows of the table for balloon id at hour h (at most one).
RowsAt(id, h) == {i \in 1..Len(df) : df[i].id = id /\ df[i].time_hour_ago = h}

\* A point that is a list of exactly three numbers.
NumericTriple(point) ==
    /\ point.list
    /\ Len(point.items) = 3
    /\ \A k \in 1..3 : ~IsNA(point.items[k])

FetchSucceeded(o) == o.net = "ok" /\ o.code = 200 /\ o.body = "array"

NumericTriples(o) ==
    IF FetchSucceeded(o)
    THEN Cardinality({k \in 1..Len(o.items) : NumericTriple(o.items[k])})
    ELSE 0

\* C1: the table has exactly one row per structurally valid point (a list of
\* three numbers) of the hours whose fetch succeeded, so every pass of the
\* fetch loop adds as many records as its snapshot holds such points, and
\* the table built at the end has one row per record.
C1_RowCountIsValidTriples ==
    [][/\ (pc = "fetching" /\ hour < NumHours /\ pc' = "fetching")
            => Len(records') = Len(records) + NumericTriples(r')
       /\ (pc = "fetching" /\ pc' = "serving") => Len(df') = Len(records)]_vars

\* C2: the vertical speed of row (id, h) is alt(id, h) - alt(id, h+1) when
\* the table holds a row (id, h+1), and is missing otherwise.
C2_SpeedIsHourlyDifference ==
    pc = "serving" =>
        \A i \in 1..Len(df) :
            LET older == RowsAt(df[i].id, df[i].time_hour_ago + 1)
            IN  IF older = {} THEN IsNA(df[i].vertical_speed)
                ELSE \A j \in older : df[i].vertical_speed = Sub(df[i].alt, df[j].alt)

\* The older rows of balloon id: same id, hours_ago above the reference hour.
OlderRows(id) == {i \in 1..Len(df) : df[i].id = id /\ df[i].time_hour_ago > selected_hour}

\* C3: for a balloon with a row at the reference hour, the stationary message
\* is emitted exactly when the table holds at least three older rows of the
\* balloon and each has the lat and the lon of the reference row.
C3_StationaryIffThreeEqualOlder ==
    AlertsReturned =>
        \A i \in 1..Len(df) :
            df[i].time_hour_ago = selected_hour =>
                (Emitted("stationary", df[i].id) <=>
                    /\ Cardinality(OlderRows(df[i].id)) >= 3
                    /\ \A j \in OlderRows(df[i].id) :
                          /\ ~FloatNe(df[j].lat, df[i].lat)
                          /\ ~FloatNe(df[j].lon, df[i].lon))

\* C4: when no hour produced a valid point the table is empty, and
\* generate_alerts on it returns the single nominal message.
C4_EmptyTableIsNominal ==
    /\ (pc = "serving" /\ records = <<>>) => df = <<>>
    /\ (pc = "serving" /\ df = <<>> /\ out.op = "generate_alerts")
           => out = Returned("generate_alerts", <<Nominal>>)

\* An hour whose outcome is a network error, a status other than 200, an
\* undecodable body, or a decoded body that is not an array.
FailingHour(o) == o.net # "ok" \/ o.code # 200 \/ o.body # "array"

\* C5: no outcome of an hour's fetch makes fetch_balloon_data fail: the loop
\* goes on to the next hour, and a failing hour leaves the records as an
\* empty array would.
C5_FailuresNeverPropagate ==
    [][(pc = "fetching" /\ hour < NumHours) =>
          /\ pc' = "fetching"
          /\ hour' = hour + 1
          /\ FailingHour(r') => records' = records \o HourRecords(hour, ArrayBody(<<>>))]_vars

\* C9: for a balloon with a row at the reference hour, the rapid-descent
\* message is emitted exactly when that row's vertical speed is defined and
\* strictly below -5.
C9_DescentIffBelowMinusFive ==
    AlertsReturned =>
        \A i \in 1..Len(df) :
            df[i].time_hour_ago = 0 =>
                (Emitted("descent", df[i].id) <=>
                    (df[i].vertical_speed # <<>> /\ df[i].vertical_speed[1] < -5))

\* A run of generate_alerts over a table whose hour-0 row of some balloon has
\* a speed of -6: the message is emitted.
C9_Witness ==
    /\ AlertsReturned
    /\ \E i \in 1..Len(df) :
          /\ df[i].time_hour_ago = 0
          /\ df[i].vertical_speed = Num(-6)
          /\ Emitted("descent", df[i].id)

\* A run over a table whose hour-0 row of some balloon has a speed of exactly
\* -5: no message.
C9_WitnessBoundary ==
    /\ AlertsReturned
    /\ \E i \in 1..Len(df) :
          /\ df[i].time_hour_ago = 0
          /\ df[i].vertical_speed = Num(-5)
          /\ ~Emitted("descent", df[i].id)

---------------------------------------------------------------------------
(* Properties of the predictor *)

PredictDone == out.op = "predict_trajectory" /\ out.status # "running"

RowsOf(id) == {i \in 1..Len(df) : df[i].id = id}

\* The next older row of the same balloon: the one the recomputed speed of
\* row i is taken against.
NextOlder(i) ==
    {j \in RowsOf(df[i].id) :
        /\ df[j].time_hour_ago > df[i].time_hour_ago
        /\ \A k \in RowsOf(df[i].id) :
              df[k].time_hour_ago > df[i].time_hour_ago
                  => df[j].time_hour_ago <= df[k].time_hour_ago}

\* Row i has a defined recomputed vertical speed.
HasSpeed(i) ==
    /\ ~IsNA(df[i].alt)
    /\ \E j \in NextOlder(i) : ~IsNA(df[j].alt)

\* C6: with both model files present, predict_trajectory returns None exactly
\* when the balloon has no row with a defined recomputed vertical speed, and
\* otherwise a sequence of exactly H pairs.
C6_NoneIffNoSpeedRow ==
    (PredictDone /\ latFile # <<>> /\ lonFile # <<>>) =>
        IF \E i \in RowsOf(balloon_id) : HasSpeed(i)
        THEN out.status = "returned" /\ Len(out.value) = horizon
        ELSE out.status = "returned_none"

\* C7: with a model file absent, every call of predict_trajectory raises the
\* models-unavailable error, whatever the table, the balloon and the horizon.
C7_MissingModelsRaise ==
    (out.op = "predict_trajectory" /\ (latFile = <<>> \/ lonFile = <<>>)) =>
        /\ out.status = "raised"
        /\ out.value = <<"FileNotFoundError">>
        /\ pp = "idle"

\* A call that raised the error with only the longitude file absent, for a
\* balloon the table holds no row of.
C7_Witness ==
    /\ out = Raised("predict_trajectory", "FileNotFoundError")
    /\ latFile # <<>>
    /\ lonFile = <<>>
    /\ RowsOf(balloon_id) = {}

\* The consecutive pairs of a balloon's rows: <<a, b>> with a the earlier
\* sample in time and b the sample that follows it in time.
ConsecutivePairs == {<<a, b>> \in (1..Len(df)) \X (1..Len(df)) : a \in NextOlder(b)}

\* Every coordinate of every row of the table is a number.
NumericTable == \A i \in 1..Len(df) : ~IsNA(df[i].lat) /\ ~IsNA(df[i].lon) /\ ~IsNA(df[i].alt)

\* C8: training builds exactly one example per consecutive pair of a
\* balloon's rows, its features those of the earlier sample in time (larger
\* hours_ago), its labels the lat and lon of the sample that follows.
\* Stated over the tables whose coordinates are all numbers.
C8_OneExamplePerPair ==
    (out.op = "train_and_save_models" /\ df # <<>> /\ NumericTable) =>
        /\ Len(X) = Cardinality(ConsecutivePairs)
        /\ \A p \in ConsecutivePairs :
              \E k \in 1..Len(X) :
                  /\ X[k][1] = df[p[1]].time_hour_ago
                  /\ Num(X[k][2]) = df[p[1]].lat
                  /\ Num(X[k][3]) = df[p[1]].lon
                  /\ Num(X[k][4]) = df[p[1]].alt
                  /\ Num(y_lat[k]) = df[p[2]].lat
                  /\ Num(y_lon[k]) = df[p[2]].lon

\* The rows of balloon id that survive the filter of a prediction: every
\* coordinate present and the recomputed speed defined.
ValidRows(id) ==
    {i \in RowsOf(id) : ~IsNA(df[i].lat) /\ ~IsNA(df[i].lon) /\ HasSpeed(i)}

\* The most recent valid row.
SeedRow(id) ==
    CHOOSE i \in ValidRows(id) :
        \A j \in ValidRows(id) : df[i].time_hour_ago <= df[j].time_hour_ago

\* C10: the feature vector of pass k (k = 0 .. H-1) of the loop is
\* (t0 - k, lat_k, lon_k, alt0, vs0): the seed's time offset less k, the
\* seed's position on the first pass and the pair predicted by the pass
\* before on the others, the seed's altitude and the seed's vertical speed.
C10_FeaturesOfEachPass ==
    (pp = "loop" /\ step >= 1) =>
        LET s == SeedRow(balloon_id)
            o == CHOOSE j \in NextOlder(s) : TRUE
            k == step - 1
        IN  x = << df[s].time_hour_ago - k,
                   IF k = 0 THEN df[s].lat[1] ELSE preds[k][1],
                   IF k = 0 THEN df[s].lon[1] ELSE preds[k][2],
                   df[s].alt[1],
                   df[s].alt[1] - df[o].alt[1] >>

\* Two passes made from a seed that is not the balloon's newest row, the
\* second pass fed with a position other than the seed's.
C10_Witness ==
    /\ pp = "loop"
    /\ step = 2
    /\ df[SeedRow(balloon_id)].time_hour_ago > 0
    /\ <<x[2], x[3]>> = preds[1]
    /\ preds[1] # <<df[SeedRow(balloon_id)].lat[1], df[SeedRow(balloon_id)].lon[1]>>

====
